---- MODULE Spec2Model ----
(***************************************************************************)
(* Model of the OpenSearch charm plugin manager                            *)
(* (lib/charms/opensearch/v0/opensearch_plugin_manager.py).                *)
(*                                                                         *)
(* One reconcile cycle, OpenSearchPluginManager.run, is a sequence of      *)
(* steps followed by the program counter pc: the readiness gate, then for  *)
(* each catalog plugin the install, configure and disable phases; the      *)
(* configure and disable phases go through the four store operations of    *)
(* _apply_config.  Between cycles the environment changes the charm        *)
(* configuration, the relations, the service state and the cluster health. *)
(***************************************************************************)
EXTENDS Integers, Sequences, FiniteSets, TLC

\* ------------------------------------------------------------------ bounds
\* Largest number of remote units a relation is given.
MaxUnits == 1

\* --------------------------------------------------------------- constants
None == "None"

KNN == "opensearch-knn"
S3 == "repository-s3"

\* Names of the catalog's plugins, and the order the catalog dict yields them.
Plugins == {KNN, S3}
PluginOrder == <<KNN, S3>>

KnnOption == "plugin_opensearch_knn"
S3Relation == "s3-credentials"
Options == {KnnOption}
RelationNames == {S3Relation}

\* The catalog of the source: KNN gated by a config option, S3 by a relation.
ConfigExposedPlugins ==
    [p \in Plugins |->
        IF p = KNN THEN [config |-> KnnOption, relation |-> None]
                   ELSE [config |-> None, relation |-> S3Relation]]

\* Catalogs the manager is run with: the source's, and one whose entries have
\* no gate at all (KNN) and both gates (S3).
Catalogs ==
    { ConfigExposedPlugins,
      [p \in Plugins |->
        IF p = KNN THEN [config |-> None, relation |-> None]
                   ELSE [config |-> KnnOption, relation |-> S3Relation]] }

\* A plugin that is not in the catalog.
ICU == "analysis-icu"

\* plugin.dependencies of the plugin descriptors the manager is run with.
DependencyChoices ==
    { [p \in Plugins |-> {}],
      [p \in Plugins |-> IF p = S3 THEN {KNN} ELSE {}],
      [p \in Plugins |-> IF p = KNN THEN {S3} ELSE {}],
      [p \in Plugins |-> IF p = S3 THEN {ICU} ELSE {}] }

HealthColors == {"GREEN", "YELLOW", "RED"}

PluginState == {"MISSING", "INSTALLED", "ENABLED", "WAITING_FOR_UPGRADE"}

\* Version strings are sequences of characters.
V_2_9_0 == <<"2", ".", "9", ".", "0">>
V_2_9_0_1 == <<"2", ".", "9", ".", "0", ".", "1">>
V_2_10_0 == <<"2", ".", "1", "0", ".", "0">>
V_2_9 == <<"2", ".", "9">>
V_2_8_0 == <<"2", ".", "8", ".", "0">>

\* Keys of the configuration store and of the keystore.
KnnEnabledKey == "knn.plugin.enabled"
S3RegionKey == "s3.client.default.region"
S3AccessKey == "s3.client.default.access_key"

EmptyMap == [k \in {} |-> ""]

VARIABLES
    catalog,          \* ConfigExposedPlugins: name -> [config, relation]
    dependencies,     \* name -> plugin.dependencies
    version,          \* self._opensearch.version
    plugin_version,   \* name -> plugin.version
    charm_config,     \* self._charm.config: option -> value
    relations,        \* relation name -> number of remote units (absent: no relation)
    started,          \* self._charm.opensearch.is_started()
    health,           \* what self._charm.health.apply() returns now
    installed,        \* names listed by "opensearch-plugin list"
    cfg,              \* the configuration store (opensearch_config)
    keystore,         \* the secret store (OpenSearchKeystore)
    pc,               \* position of the running cycle
    idx,              \* index in PluginOrder of the plugin being processed
    applying,         \* which delta _apply_config is applying: none, enable, disable
    r_install,        \* result of _install_if_needed for the current plugin
    r_configure,      \* result of _configure_if_needed for the current plugin
    restart_needed,   \* run's restart_needed
    error,            \* exception raised by the cycle, "none" if none
    health0,          \* health at the start of the cycle
    health_reads,     \* number of health.apply() calls of the gate
    installed0,       \* installed list at the start of the cycle
    cfg0,             \* configuration store at the start of the cycle
    keystore0,        \* keystore at the start of the cycle
    install_calls,    \* name -> number of install commands invoked in the cycle
    install_result,   \* name -> outcome of the install command in the cycle
    applied,          \* name -> deltas applied in the cycle
    reported,         \* name -> what get_plugin_status last returned, "none" if never
    call_config,      \* the delta a direct call of _apply_config is given
    apply_calls,      \* number of direct calls of _apply_config made
    apply_result,     \* what the last direct call of _apply_config returned
    interrupted,      \* where the last cycle was cut short, NoInterrupt if it was not
    requested,        \* name -> what _user_requested_to_enable last returned or raised
    malformed,        \* names of the plugins whose config() raises KeyError
    order,            \* the plugins in the order self.plugins lists them
    first,            \* what the cycle before this one ended with, NoFirst if unknown
    is_leader,        \* self.charm.unit.is_leader()
    str_keys,         \* whether the peers data keep their keys as str(key)
    app_peers_data,   \* self._charm.app_peers_data: key -> secret object
    unit_peers_data,  \* self._charm.unit_peers_data: key -> secret object
    tls_relation,     \* whether self.charm.model.get_relation(TLS_RELATION) is there
    csr_sent,         \* the CSRs handed to self.certs for creation or renewal
    tls_event         \* the TLS event handled last and what its handler did

env_vars == <<catalog, dependencies, version, plugin_version, charm_config, relations,
              started, health>>
store_vars == <<installed, cfg, keystore>>
cycle_vars == <<pc, idx, applying, r_install, r_configure, restart_needed, error,
                health0, health_reads, installed0, cfg0, keystore0, install_calls,
                install_result, applied, reported>>
call_vars == <<call_config, apply_calls, apply_result>>
probe_vars == <<requested, malformed, order, first>>
tls_vars == <<is_leader, str_keys, app_peers_data, unit_peers_data, tls_relation,
              csr_sent, tls_event>>
side_vars == <<call_vars, interrupted, probe_vars, tls_vars>>
vars == <<env_vars, store_vars, cycle_vars, side_vars>>

\* ------------------------------------------------------------ mappings
\* No cycle was cut short.
NoInterrupt == [at |-> "none"]

\* Nothing is known of the cycle before.
NoFirst == [known |-> FALSE]

\* dict.update: the entries of m override those of store.
Put(store, m) ==
    [k \in (DOMAIN store) \cup (DOMAIN m) |-> IF k \in DOMAIN m THEN m[k] ELSE store[k]]

\* Removal of the keys ks; an absent key is left absent.
Remove(store, ks) == [k \in (DOMAIN store) \ ks |-> store[k]]

\* opensearch_config.get_plugin(conf): the stored values of the keys of conf.
get_plugin(store, conf) == [k \in (DOMAIN conf) \cap (DOMAIN store) |-> store[k]]

\* ------------------------------------------------------ plugin descriptors
OpenSearchPluginConfig(cfg_add, cfg_del, secret_add, secret_del) ==
    [config_entries_to_add |-> cfg_add, config_entries_to_del |-> cfg_del,
     secret_entries_to_add |-> secret_add, secret_entries_to_del |-> secret_del]

\* OpenSearchPluginConfig(): the empty delta.
NoConfig == OpenSearchPluginConfig(EmptyMap, {}, EmptyMap, {})

\* plugin.config(): the delta that enables the plugin.
PluginConfig(p) ==
    IF p = KNN
    THEN OpenSearchPluginConfig(KnnEnabledKey :> "true", {}, EmptyMap, {})
    ELSE OpenSearchPluginConfig(S3RegionKey :> "default", {}, S3AccessKey :> "key", {})

\* plugin.disable(): the delta that disables the plugin.
PluginDisable(p) ==
    IF p = KNN
    THEN OpenSearchPluginConfig(KnnEnabledKey :> "false", {KnnEnabledKey}, EmptyMap, {})
    ELSE OpenSearchPluginConfig(EmptyMap, {}, EmptyMap, {S3AccessKey})

\* ---------------------------------------------------------------- versions
\* str.split("."), on a sequence of characters.
RECURSIVE SplitAcc(_, _, _)
SplitAcc(s, cur, acc) ==
    IF s = <<>> THEN Append(acc, cur)
    ELSE IF Head(s) = "." THEN SplitAcc(Tail(s), <<>>, Append(acc, cur))
    ELSE SplitAcc(Tail(s), Append(cur, Head(s)), acc)

Split(s) == SplitAcc(s, <<>>, <<>>)

\* ".".join(parts)
RECURSIVE Join(_)
Join(parts) ==
    IF parts = <<>> THEN <<>>
    ELSE IF Len(parts) = 1 THEN parts[1]
    ELSE parts[1] \o <<".">> \o Join(Tail(parts))

Min(a, b) == IF a < b THEN a ELSE b

\* _needs_upgrade with the two versions as parameters.
NeedsUpgradeStrict(v, pv) == v # pv

NeedsUpgrade(v, pv) ==
    LET ver == Split(v)
        plug == Split(pv)
        num_points == Min(Len(plug), Len(ver))
    IN Join(SubSeq(ver, 1, num_points)) # Join(SubSeq(plug, 1, num_points))

needs_upgrade(p) == NeedsUpgrade(version, plugin_version[p])

\* ------------------------------------------------------------------ status
is_installed(p, inst) == p \in inst

\* _is_enabled, lines 252-261; plugin.config() raises KeyError for the plugins of
\* malformed, which the except clause turns into False.
IsEnabledNoExcept(p, store) ==
    LET plugin_conf == PluginConfig(p).config_entries_to_add
        stored_plugin_conf == get_plugin(store, plugin_conf)
    IN plugin_conf = stored_plugin_conf

is_enabled(p, store) ==
    LET plugin_conf == PluginConfig(p).config_entries_to_add
        stored_plugin_conf == get_plugin(store, plugin_conf)
    IN IF p \in malformed THEN FALSE ELSE plugin_conf = stored_plugin_conf

\* status(plugin) on a given installed list and configuration store.
StatusOf(p, inst, store) ==
    IF ~is_installed(p, inst) THEN "MISSING"
    ELSE IF ~is_enabled(p, store) THEN "INSTALLED"
    ELSE IF needs_upgrade(p) THEN "WAITING_FOR_UPGRADE"
    ELSE "ENABLED"

status(p) == StatusOf(p, installed, cfg)

\* ---------------------------------------------------- desired-state resolver
\* self._charm.config.get(key, default)
ConfigGet(key, default) ==
    IF key \in DOMAIN charm_config THEN charm_config[key] ELSE default

IsPluginRelationSetAnyUnits(relation_name) ==
    relation_name # None /\ relation_name \in DOMAIN relations

is_plugin_relation_set(relation_name) ==
    IF relation_name = None THEN FALSE
    ELSE IF relation_name \notin DOMAIN relations THEN FALSE
    ELSE relations[relation_name] > 0

UserRequestedUngatedTrue(p) ==
    \/ (catalog[p].config = None /\ catalog[p].relation = None)
    \/ ConfigGet(catalog[p].config, FALSE)
    \/ is_plugin_relation_set(catalog[p].relation)

user_requested_to_enable(p) ==
    LET plugin_data == catalog[p]
    IN IF ~ConfigGet(plugin_data.config, FALSE)
          /\ ~is_plugin_relation_set(plugin_data.relation)
       THEN FALSE
       ELSE TRUE

\* -------------------------------------------------------------------- gate
\* The condition of run's first statement: h1 and h2 are what the first and the
\* second health.apply() return.
GateRaisesHealthOnly(is_started, h1, h2) == h1 # "GREEN" \/ h2 # "YELLOW"

GateRaises(is_started, h1, h2) ==
    ~is_started /\ (h1 # "GREEN" \/ h2 # "YELLOW")

\* Number of health.apply() calls the condition makes (and, or short-circuit).
GateHealthReads(is_started, h1) ==
    IF is_started THEN 0 ELSE IF h1 # "GREEN" THEN 1 ELSE 2

\* Where run goes after the gate.
AfterGateContinue(raises) == "install"

AfterGate(raises) == IF raises THEN "raised" ELSE "install"

\* --------------------------------------------------------- initial state
CycleIdle ==
    /\ pc = "idle" /\ idx = 0 /\ applying = "none"
    /\ r_install = FALSE /\ r_configure = FALSE /\ restart_needed = FALSE
    /\ error = "none" /\ health0 = "GREEN" /\ health_reads = 0
    /\ installed0 = {} /\ cfg0 = EmptyMap /\ keystore0 = EmptyMap
    /\ install_calls = [p \in Plugins |-> 0]
    /\ install_result = [p \in Plugins |-> "none"]
    /\ applied = [p \in Plugins |-> {}]
    /\ reported = [p \in Plugins |-> "none"]

\* _apply_config was not called on its own and no cycle was cut short.
SideIdle ==
    /\ call_config = NoConfig /\ apply_calls = 0 /\ apply_result = FALSE
    /\ interrupted = NoInterrupt

\* No TLS event was handled.
NoTlsEvent == [handler |-> "none"]

\* The unit is not the leader, its peers data are empty and it has no relation
\* with a certificates provider.
TlsIdle ==
    /\ is_leader = FALSE /\ str_keys = FALSE
    /\ app_peers_data = EmptyMap /\ unit_peers_data = EmptyMap
    /\ tls_relation = FALSE /\ csr_sent = {}
    /\ tls_event = NoTlsEvent

\* The resolver was not asked, no descriptor is malformed, the plugins come in the
\* order of the catalog and nothing is kept of earlier cycles.
ProbeIdle ==
    /\ requested = [p \in Plugins \cup {ICU} |-> "none"]
    /\ malformed = {}
    /\ order = PluginOrder
    /\ first = NoFirst

Init ==
    /\ catalog \in Catalogs
    /\ dependencies \in DependencyChoices
    /\ version \in {V_2_9_0, V_2_10_0}
    /\ plugin_version = [p \in Plugins |-> IF p = KNN THEN V_2_9_0_1 ELSE V_2_9_0]
    /\ charm_config = [o \in Options |-> FALSE]
    /\ relations = EmptyMap
    /\ started = FALSE
    /\ health = "RED"
    /\ installed \in SUBSET Plugins
    /\ cfg \in {EmptyMap, PluginConfig(KNN).config_entries_to_add}
    /\ keystore = EmptyMap
    /\ CycleIdle
    /\ SideIdle
    /\ ProbeIdle
    /\ TlsIdle

\* ------------------------------------------------------------ environment
\* config-changed: the operator sets a charm option.
ConfigChanged ==
    /\ pc = "idle"
    /\ \E o \in Options :
        charm_config' = [charm_config EXCEPT ![o] = ~charm_config[o]]
    /\ UNCHANGED <<catalog, dependencies, version, plugin_version, relations, started,
                   health, store_vars, cycle_vars>>
    /\ UNCHANGED side_vars

\* A relation is created or broken, or a remote unit joins or departs.
RelationChanged ==
    /\ pc = "idle"
    /\ \E r \in RelationNames :
        \/ r \notin DOMAIN relations /\ relations' = Put(relations, r :> 0)
        \/ r \in DOMAIN relations /\ relations' = Remove(relations, {r})
        \/ /\ r \in DOMAIN relations
           /\ relations[r] < MaxUnits
           /\ relations' = [relations EXCEPT ![r] = @ + 1]
        \/ /\ r \in DOMAIN relations
           /\ relations[r] > 0
           /\ relations' = [relations EXCEPT ![r] = @ - 1]
    /\ UNCHANGED <<catalog, dependencies, version, plugin_version, charm_config, started,
                   health, store_vars, cycle_vars>>
    /\ UNCHANGED side_vars

\* The managed service starts or stops.
ServiceChanged ==
    /\ pc = "idle"
    /\ started' = ~started
    /\ UNCHANGED <<catalog, dependencies, version, plugin_version, charm_config,
                   relations, health, store_vars, cycle_vars>>
    /\ UNCHANGED side_vars

\* The cluster health changes.
HealthChanged ==
    /\ pc = "idle"
    /\ \E h \in HealthColors \ {health} : health' = h
    /\ UNCHANGED <<catalog, dependencies, version, plugin_version, charm_config,
                   relations, started, store_vars, cycle_vars>>
    /\ UNCHANGED side_vars

\* ------------------------------------------------------------------- run
CurrentPlugin == order[idx]

\* An exception leaves run.
RaiseDepsSkipsPlugin(e) ==
    /\ error' = e
    /\ pc' = IF e = "OpenSearchPluginMissingDepsError" THEN "configure" ELSE "raised"

Raise(e) == pc' = "raised" /\ error' = e

\* run, lines 116-126: the gate.  The second health read may return another
\* colour than the first; the cluster is left with the last colour read.
RunGate ==
    /\ pc = "idle"
    /\ \E h2 \in HealthColors :
        LET h1 == health
            reads == GateHealthReads(started, h1)
            raises == GateRaises(started, h1, h2)
        IN /\ (reads < 2 => h2 = h1)
           /\ health' = h2
           /\ health0' = h1
           /\ health_reads' = reads
           /\ pc' = AfterGate(raises)
           /\ error' = IF raises THEN "ClusterNotReady" ELSE "none"
    /\ idx' = 1
    /\ installed0' = installed /\ cfg0' = cfg /\ keystore0' = keystore
    /\ UNCHANGED <<catalog, dependencies, version, plugin_version, charm_config,
                   relations, started, store_vars, applying, r_install, r_configure,
                   restart_needed, install_calls, install_result, applied, reported>>
    /\ UNCHANGED side_vars

\* The dependencies of p absent from the installed list.
MissingDepsNone(p, inst) == {}

MissingDeps(p, inst) == {dep \in dependencies[p] : dep \notin inst}

\* The first condition of _install_if_needed (line 148): nothing to install.
NothingToInstallStatusOnly(p) == status(p) # "MISSING"

NothingToInstall(p) == status(p) # "MISSING" \/ ~user_requested_to_enable(p)

\* _install_if_needed, lines 164-168: the failure of the install command is not
\* an error.
CmdErrorIsBenignNever(cmd) == FALSE

CmdErrorIsBenignAlways(cmd) == TRUE

CmdErrorIsBenign(cmd) == cmd = "already exists"

\* _install_if_needed, lines 138-171.
install_if_needed ==
    /\ pc = "install"
    /\ LET p == CurrentPlugin
       IN \E list_ok \in BOOLEAN, cmd \in {"ok", "already exists", "error"},
             listed \in BOOLEAN :
           IF ~list_ok
           THEN /\ Raise("OpenSearchPluginError")
                /\ cmd = "ok" /\ listed
                /\ UNCHANGED <<installed, r_install, install_calls, install_result>>
           ELSE IF NothingToInstall(p)
           THEN /\ pc' = "configure" /\ r_install' = FALSE
                /\ cmd = "ok" /\ listed
                /\ UNCHANGED <<installed, error, install_calls, install_result>>
           ELSE IF MissingDeps(p, installed) # {}
           THEN /\ Raise("OpenSearchPluginMissingDepsError")
                /\ cmd = "ok" /\ listed
                /\ UNCHANGED <<installed, r_install, install_calls, install_result>>
           ELSE /\ install_calls' = [install_calls EXCEPT ![p] = @ + 1]
                /\ install_result' = [install_result EXCEPT ![p] = cmd]
                /\ CASE cmd = "ok" ->
                          /\ listed
                          /\ installed' = installed \cup {p}
                          /\ pc' = "configure" /\ r_install' = TRUE
                          /\ UNCHANGED error
                     [] cmd # "ok" /\ CmdErrorIsBenign(cmd) ->
                          /\ installed' = IF listed THEN installed \cup {p} ELSE installed
                          /\ pc' = "configure" /\ r_install' = FALSE
                          /\ UNCHANGED error
                     [] OTHER ->
                          /\ listed
                          /\ Raise("OpenSearchPluginInstallError")
                          /\ UNCHANGED <<installed, r_install>>
    /\ UNCHANGED <<env_vars, cfg, keystore, idx, applying, r_configure, restart_needed,
                   health0, health_reads, installed0, cfg0, keystore0, applied, reported>>
    /\ UNCHANGED side_vars

\* The statements of _apply_config that touch a store, in the order of lines
\* 216-223.
ApplyStepsAddFirst == <<"secret_add", "secret_del", "config_add", "config_del">>

ApplyStepsConfigFirst == <<"config_del", "config_add", "secret_del", "secret_add">>

ApplySteps == <<"secret_del", "secret_add", "config_del", "config_add">>

\* Where _apply_config continues after a statement: the next one, or its return.
StepAfter(step) ==
    LET i == CHOOSE j \in 1..Len(ApplySteps) : ApplySteps[j] = step
    IN IF i < Len(ApplySteps) THEN ApplySteps[i + 1] ELSE "apply_return"

\* The keystore after one statement of _apply_config (lines 216-217).
KeystoreAfter(step, ks, config) ==
    CASE step = "secret_del" -> Remove(ks, config.secret_entries_to_del)
      [] step = "secret_add" -> Put(ks, config.secret_entries_to_add)
      [] OTHER -> ks

\* The configuration store after one statement of _apply_config (lines 219-223).
CfgAfter(step, store, config) ==
    CASE step = "config_del" ->
            IF config.config_entries_to_del # {}
            THEN Remove(store, config.config_entries_to_del)
            ELSE store
      [] step = "config_add" ->
            IF config.config_entries_to_add # EmptyMap
            THEN Put(store, config.config_entries_to_add)
            ELSE store
      [] OTHER -> store

\* The condition of _configure_if_needed (lines 176-179): nothing to configure.
NothingToConfigureWantedOnly(p) == ~user_requested_to_enable(p)

NothingToConfigure(p) ==
    ~user_requested_to_enable(p) \/ status(p) # "INSTALLED"

\* _configure_if_needed, lines 173-185, up to the call of _apply_config.
configure_if_needed ==
    /\ pc = "configure"
    /\ LET p == CurrentPlugin
       IN \E list_ok \in BOOLEAN :
           IF user_requested_to_enable(p) /\ ~list_ok
           THEN /\ Raise("OpenSearchPluginError")
                /\ UNCHANGED <<applying, r_configure, applied>>
           ELSE IF NothingToConfigure(p)
           THEN /\ list_ok
                /\ pc' = "disable" /\ r_configure' = FALSE
                /\ UNCHANGED <<applying, error, applied>>
           ELSE IF p \in malformed
           THEN /\ list_ok
                /\ Raise("OpenSearchPluginMissingConfigError")
                /\ UNCHANGED <<applying, r_configure, applied>>
           ELSE /\ list_ok
                /\ pc' = ApplySteps[1] /\ applying' = "enable"
                /\ applied' = [applied EXCEPT ![p] = @ \cup {"enable"}]
                /\ UNCHANGED <<error, r_configure>>
    /\ UNCHANGED <<env_vars, store_vars, idx, r_install, restart_needed, health0,
                   health_reads, installed0, cfg0, keystore0, install_calls,
                   install_result, reported>>
    /\ UNCHANGED side_vars

\* The delta _apply_config was called with.
CurrentDelta ==
    IF applying = "enable" THEN PluginConfig(CurrentPlugin)
    ELSE PluginDisable(CurrentPlugin)

\* _apply_config, line 216: self._keystore.delete(config.secret_entries_to_del)
apply_secret_del ==
    /\ pc = "secret_del"
    /\ keystore' = KeystoreAfter("secret_del", keystore, CurrentDelta)
    /\ pc' = StepAfter("secret_del")
    /\ UNCHANGED <<env_vars, installed, cfg, idx, applying, r_install, r_configure,
                   restart_needed, error, health0, health_reads, installed0, cfg0,
                   keystore0, install_calls, install_result, applied, reported>>
    /\ UNCHANGED side_vars

\* _apply_config, line 217: self._keystore.add(config.secret_entries_to_add)
apply_secret_add ==
    /\ pc = "secret_add"
    /\ keystore' = KeystoreAfter("secret_add", keystore, CurrentDelta)
    /\ pc' = StepAfter("secret_add")
    /\ UNCHANGED <<env_vars, installed, cfg, idx, applying, r_install, r_configure,
                   restart_needed, error, health0, health_reads, installed0, cfg0,
                   keystore0, install_calls, install_result, applied, reported>>
    /\ UNCHANGED side_vars

\* _apply_config, lines 219-220: delete_plugin, if there are entries to delete.
apply_config_del ==
    /\ pc = "config_del"
    /\ cfg' = CfgAfter("config_del", cfg, CurrentDelta)
    /\ pc' = StepAfter("config_del")
    /\ UNCHANGED <<env_vars, installed, keystore, idx, applying, r_install, r_configure,
                   restart_needed, error, health0, health_reads, installed0, cfg0,
                   keystore0, install_calls, install_result, applied, reported>>
    /\ UNCHANGED side_vars

\* The value _apply_config returns (line 226).
ApplyResultNever(config) == FALSE

ApplyResult(config) ==
    IF config.config_entries_to_add # EmptyMap \/ config.config_entries_to_del # {}
    THEN TRUE
    ELSE FALSE

\* run, lines 128-135: any([install, configure, disable, restart_needed]).
AnyNoDisable(r_i, r_c, r_d, r_n) == r_i \/ r_c \/ r_n

AnyLastPlugin(r_i, r_c, r_d, r_n) == r_i \/ r_c \/ r_d

any(r_i, r_c, r_d, r_n) == r_i \/ r_c \/ r_d \/ r_n

\* The end of one iteration of run's loop, with r_disable what _disable_if_needed
\* returned: the next plugin, or line 136.
EndOfIteration(r_disable) ==
    /\ restart_needed' = any(r_install, r_configure, r_disable, restart_needed)
    /\ r_install' = FALSE /\ r_configure' = FALSE
    /\ applying' = "none"
    /\ IF idx < Len(order)
       THEN idx' = idx + 1 /\ pc' = "install"
       ELSE idx' = idx /\ pc' = "done"

\* _apply_config, lines 222-223: add_plugin, if there are entries to add.
apply_config_add ==
    /\ pc = "config_add"
    /\ cfg' = CfgAfter("config_add", cfg, CurrentDelta)
    /\ pc' = StepAfter("config_add")
    /\ UNCHANGED <<env_vars, installed, keystore, idx, applying, r_install, r_configure,
                   restart_needed, error, health0, health_reads, installed0, cfg0,
                   keystore0, install_calls, install_result, applied, reported>>
    /\ UNCHANGED side_vars

\* _apply_config, line 226: the return to _configure_if_needed (line 185) or to
\* _disable_if_needed (line 200), which return its value to run.
apply_return ==
    /\ pc = "apply_return"
    /\ IF applying = "enable"
       THEN /\ r_configure' = ApplyResult(CurrentDelta)
            /\ pc' = "disable" /\ applying' = "none"
            /\ UNCHANGED <<idx, r_install, restart_needed>>
       ELSE EndOfIteration(ApplyResult(CurrentDelta))
    /\ UNCHANGED <<env_vars, store_vars, error, health0, health_reads,
                   installed0, cfg0, keystore0, install_calls, install_result, applied, reported>>
    /\ UNCHANGED side_vars

\* The condition of _disable_if_needed (lines 190-193): nothing to disable.
NothingToDisableEnabledOnly(p) ==
    user_requested_to_enable(p) \/ status(p) # "ENABLED"

NothingToDisableStatusOnly(p) ==
    status(p) \notin {"ENABLED", "WAITING_FOR_UPGRADE"}

NothingToDisable(p) ==
    user_requested_to_enable(p) \/ status(p) \notin {"ENABLED", "WAITING_FOR_UPGRADE"}

\* The installed list once _disable_if_needed has acted on p: _remove_plugin is
\* not called, the plugin stays installed.
InstalledAfterDisableRemoving(p, inst) == inst \ {p}

InstalledAfterDisable(p, inst) == inst

\* _disable_if_needed, lines 187-200, up to the call of _apply_config.
disable_if_needed ==
    /\ pc = "disable"
    /\ LET p == CurrentPlugin
       IN \E list_ok \in BOOLEAN :
           IF ~user_requested_to_enable(p) /\ ~list_ok
           THEN /\ Raise("OpenSearchPluginError")
                /\ UNCHANGED <<idx, applying, r_install, r_configure, restart_needed,
                               applied, installed>>
           ELSE IF NothingToDisable(p)
           THEN /\ list_ok
                /\ EndOfIteration(FALSE)
                /\ UNCHANGED <<error, applied, installed>>
           ELSE /\ list_ok
                /\ pc' = ApplySteps[1] /\ applying' = "disable"
                /\ applied' = [applied EXCEPT ![p] = @ \cup {"disable"}]
                /\ installed' = InstalledAfterDisable(p, installed)
                /\ UNCHANGED <<idx, error, r_install, r_configure, restart_needed>>
    /\ UNCHANGED <<env_vars, cfg, keystore, health0, health_reads, installed0, cfg0,
                   keystore0, install_calls, install_result, reported>>
    /\ UNCHANGED side_vars

\* Nothing is kept of a cycle that is over.
CycleReset ==
    /\ pc' = "idle" /\ idx' = 0 /\ applying' = "none"
    /\ r_install' = FALSE /\ r_configure' = FALSE /\ restart_needed' = FALSE
    /\ error' = "none" /\ health0' = "GREEN" /\ health_reads' = 0
    /\ installed0' = {} /\ cfg0' = EmptyMap /\ keystore0' = EmptyMap
    /\ install_calls' = [p \in Plugins |-> 0]
    /\ install_result' = [p \in Plugins |-> "none"]
    /\ applied' = [p \in Plugins |-> {}]

\* The cycle is over and the next trigger finds the manager idle again.
EndOfCycle ==
    /\ CycleReset
    /\ UNCHANGED <<env_vars, store_vars, reported, call_vars>>

\* run returned restart_needed (line 136).
RunReturned ==
    /\ pc = "done"
    /\ EndOfCycle
    /\ interrupted' = NoInterrupt
    /\ UNCHANGED <<probe_vars, tls_vars>>

\* run raised; the caller defers or blocks.
RunRaised ==
    /\ pc = "raised"
    /\ EndOfCycle
    /\ UNCHANGED <<interrupted, probe_vars, tls_vars>>

Next ==
    \/ ConfigChanged
    \/ RelationChanged
    \/ ServiceChanged
    \/ HealthChanged
    \/ RunGate
    \/ install_if_needed
    \/ configure_if_needed
    \/ apply_secret_del
    \/ apply_secret_add
    \/ apply_config_del
    \/ apply_config_add
    \/ apply_return
    \/ disable_if_needed
    \/ RunReturned
    \/ RunRaised

Spec == Init /\ [][Next]_vars

\* ------------------------------------------------- status evaluation alone
\* Version strings the status evaluation is run on.
Versions == {V_2_9_0, V_2_9_0_1, V_2_10_0, V_2_9, V_2_8_0}

\* Contents of the configuration store the status evaluation is run on.
ConfigStores ==
    { Put(a, b) :
        a \in {EmptyMap, KnnEnabledKey :> "true", KnnEnabledKey :> "false"},
        b \in {EmptyMap, S3RegionKey :> "default", S3RegionKey :> "other"} }

\* get_plugin_status, lines 95-100: the status of the plugin of a given class.
get_plugin_status ==
    /\ pc = "idle"
    /\ \E p \in Plugins : reported' = [reported EXCEPT ![p] = status(p)]
    /\ UNCHANGED <<env_vars, store_vars, pc, idx, applying, r_install, r_configure,
                   restart_needed, error, health0, health_reads, installed0, cfg0,
                   keystore0, install_calls, install_result, applied>>
    /\ UNCHANGED side_vars

InitStatus ==
    /\ catalog = ConfigExposedPlugins
    /\ dependencies = [p \in Plugins |-> {}]
    /\ version \in Versions
    /\ plugin_version \in [Plugins -> Versions]
    /\ charm_config = [o \in Options |-> FALSE]
    /\ relations = EmptyMap
    /\ started = TRUE
    /\ health = "GREEN"
    /\ installed \in SUBSET Plugins
    /\ cfg \in ConfigStores
    /\ keystore = EmptyMap
    /\ CycleIdle
    /\ SideIdle
    /\ ProbeIdle
    /\ TlsIdle

NextStatus == get_plugin_status

SpecStatus == InitStatus /\ [][NextStatus]_vars

\* --------------------------------------------------- _apply_config alone
\* Number of calls of _apply_config made with the same delta.
MaxApplyCalls == 2

\* Contents of the keystore _apply_config is run on.
Keystores == {EmptyMap, S3AccessKey :> "key", S3AccessKey :> "other"}

\* The deltas _apply_config is run on.
Deltas ==
    { OpenSearchPluginConfig(cfg_add, cfg_del, secret_add, secret_del) :
        cfg_add \in ConfigStores, cfg_del \in SUBSET {KnnEnabledKey, S3RegionKey},
        secret_add \in Keystores, secret_del \in SUBSET {S3AccessKey} }

\* The stores after the statements of _apply_config from the i-th on (lines
\* 216-223).
RECURSIVE StoresAfterSteps(_, _, _, _)
ApplySkippingPresent(i, ks, store, delta) ==
    LET to_add == [k \in {j \in DOMAIN delta.config_entries_to_add :
                            ~(j \in DOMAIN store
                              /\ store[j] = delta.config_entries_to_add[j])}
                     |-> delta.config_entries_to_add[k]]
    IN [keystore |-> Put(Remove(ks, delta.secret_entries_to_del),
                         delta.secret_entries_to_add),
        cfg |-> Put(Remove(store, delta.config_entries_to_del), to_add)]

StoresAfterSteps(i, ks, store, delta) ==
    IF i > Len(ApplySteps)
    THEN [keystore |-> ks, cfg |-> store]
    ELSE StoresAfterSteps(i + 1, KeystoreAfter(ApplySteps[i], ks, delta),
                          CfgAfter(ApplySteps[i], store, delta), delta)

\* _apply_config, lines 202-226, called with the delta call_config; cfg0 and keystore0
\* keep the stores the call found.
apply_config ==
    /\ pc = "idle"
    /\ apply_calls < MaxApplyCalls
    /\ LET after == StoresAfterSteps(1, keystore, cfg, call_config)
       IN keystore' = after.keystore /\ cfg' = after.cfg
    /\ cfg0' = cfg /\ keystore0' = keystore
    /\ apply_result' = ApplyResult(call_config)
    /\ apply_calls' = apply_calls + 1
    /\ UNCHANGED <<env_vars, installed, pc, idx, applying, r_install, r_configure,
                   restart_needed, error, health0, health_reads, installed0,
                   install_calls, install_result, applied, reported,
                   call_config, interrupted, probe_vars, tls_vars>>

InitApply ==
    /\ catalog = ConfigExposedPlugins
    /\ dependencies = [p \in Plugins |-> {}]
    /\ version = V_2_9_0
    /\ plugin_version = [p \in Plugins |-> V_2_9_0]
    /\ charm_config = [o \in Options |-> FALSE]
    /\ relations = EmptyMap
    /\ started = TRUE
    /\ health = "GREEN"
    /\ installed = Plugins
    /\ cfg \in ConfigStores
    /\ keystore \in Keystores
    /\ CycleIdle
    /\ call_config \in Deltas
    /\ apply_calls = 0 /\ apply_result = FALSE
    /\ interrupted = NoInterrupt
    /\ ProbeIdle
    /\ TlsIdle

NextApply == apply_config

SpecApply == InitApply /\ [][NextApply]_vars

\* ------------------------------------------------------ interrupted cycles
\* The process dies inside _apply_config, after the deletions of a store and
\* before the additions to it; the next trigger starts a new cycle.
Interrupt ==
    /\ pc \in {"secret_add", "config_add"}
    /\ interrupted = NoInterrupt
    /\ LET i == CHOOSE j \in 1..Len(ApplySteps) : ApplySteps[j] = pc
           whole == StoresAfterSteps(i, keystore, cfg, CurrentDelta)
       IN interrupted' = [at |-> pc, plugin |-> CurrentPlugin, delta |-> CurrentDelta,
                          cfg |-> whole.cfg, keystore |-> whole.keystore]
    /\ EndOfCycle
    /\ UNCHANGED <<probe_vars, tls_vars>>

\* The inputs of the manager stay as they are once a cycle was cut short.
NextCrash ==
    \/ /\ interrupted = NoInterrupt
       /\ \/ ConfigChanged
          \/ RelationChanged
          \/ ServiceChanged
          \/ HealthChanged
    \/ RunGate
    \/ install_if_needed
    \/ configure_if_needed
    \/ apply_secret_del
    \/ apply_secret_add
    \/ apply_config_del
    \/ apply_config_add
    \/ apply_return
    \/ disable_if_needed
    \/ RunReturned
    \/ RunRaised
    \/ Interrupt

SpecCrash == Init /\ [][NextCrash]_vars

\* ------------------------------------------------- cycles that keep coming
\* The inputs are settled, the service runs, and the triggers keep recurring.
InitLive ==
    /\ catalog \in Catalogs
    /\ dependencies \in DependencyChoices
    /\ version \in {V_2_9_0, V_2_10_0}
    /\ plugin_version = [p \in Plugins |-> IF p = KNN THEN V_2_9_0_1 ELSE V_2_9_0]
    /\ charm_config \in [Options -> BOOLEAN]
    /\ relations \in {EmptyMap} \cup {S3Relation :> n : n \in 0..MaxUnits}
    /\ started = TRUE
    /\ health \in HealthColors
    /\ installed \in SUBSET Plugins
    /\ cfg \in {EmptyMap, PluginConfig(KNN).config_entries_to_add}
    /\ keystore = EmptyMap
    /\ CycleIdle
    /\ SideIdle
    /\ ProbeIdle
    /\ TlsIdle

NextLive ==
    \/ RunGate
    \/ install_if_needed
    \/ configure_if_needed
    \/ apply_secret_del
    \/ apply_secret_add
    \/ apply_config_del
    \/ apply_config_add
    \/ apply_return
    \/ disable_if_needed
    \/ RunReturned
    \/ RunRaised

\* Every trigger starts a cycle and every cycle runs to its end.
SpecLive == InitLive /\ [][NextLive]_vars /\ WF_vars(NextLive)

\* ------------------------------------------------- desired state alone
\* _user_requested_to_enable, lines 242-250, for a plugin of a given name: what
\* it returns, or the KeyError of the catalog lookup on line 244.
UserRequestedResultStrict(p) ==
    IF p \notin DOMAIN catalog THEN "KeyError"
    ELSE IF catalog[p].config # None /\ catalog[p].config \notin DOMAIN charm_config
    THEN "KeyError"
    ELSE IF catalog[p].relation # None /\ catalog[p].relation \notin DOMAIN relations
    THEN "KeyError"
    ELSE IF user_requested_to_enable(p) THEN "True" ELSE "False"

UserRequestedResult(p) ==
    IF p \notin DOMAIN catalog THEN "KeyError"
    ELSE IF user_requested_to_enable(p) THEN "True" ELSE "False"

\* A call of _user_requested_to_enable.
resolve ==
    /\ pc = "idle"
    /\ \E p \in Plugins \cup {ICU} :
          requested' = [requested EXCEPT ![p] = UserRequestedResult(p)]
    /\ UNCHANGED <<env_vars, store_vars, cycle_vars, call_vars, interrupted,
                   malformed, order, first, tls_vars>>

\* The charm configuration may lack the option and the relation may not exist.
InitResolver ==
    /\ catalog \in Catalogs
    /\ dependencies = [p \in Plugins |-> {}]
    /\ version = V_2_9_0
    /\ plugin_version = [p \in Plugins |-> V_2_9_0]
    /\ charm_config \in {EmptyMap} \cup [Options -> BOOLEAN]
    /\ relations \in {EmptyMap} \cup {S3Relation :> n : n \in 0..MaxUnits}
    /\ started = TRUE
    /\ health = "GREEN"
    /\ installed \in SUBSET Plugins
    /\ cfg = EmptyMap
    /\ keystore = EmptyMap
    /\ CycleIdle
    /\ SideIdle
    /\ ProbeIdle
    /\ TlsIdle

NextResolver == resolve

SpecResolver == InitResolver /\ [][NextResolver]_vars

\* ------------------------------------------- status of malformed plugins
\* The status evaluation with descriptors whose config() raises KeyError.
InitMalformed ==
    /\ catalog = ConfigExposedPlugins
    /\ dependencies = [p \in Plugins |-> {}]
    /\ version \in {V_2_9_0, V_2_10_0}
    /\ plugin_version = [p \in Plugins |-> V_2_9_0]
    /\ charm_config = [o \in Options |-> FALSE]
    /\ relations = EmptyMap
    /\ started = TRUE
    /\ health = "GREEN"
    /\ installed \in SUBSET Plugins
    /\ cfg \in ConfigStores
    /\ keystore = EmptyMap
    /\ CycleIdle
    /\ SideIdle
    /\ requested = [p \in Plugins \cup {ICU} |-> "none"]
    /\ malformed \in SUBSET Plugins
    /\ order = PluginOrder
    /\ first = NoFirst
    /\ TlsIdle

NextMalformed == get_plugin_status

SpecMalformed == InitMalformed /\ [][NextMalformed]_vars

\* ------------------------------------------------- the same cycle, reordered
\* No external command failed in the cycle: the plugin list could be read and
\* every install command installed.
CommandsSucceed ==
    /\ error \notin {"OpenSearchPluginError", "OpenSearchPluginInstallError"}
    /\ \A p \in Plugins : install_result[p] \in {"none", "ok"}

Reverse(seq) == [i \in 1..Len(seq) |-> seq[Len(seq) + 1 - i]]

\* A cycle is over; what it ended with is kept, the stores are put back to what
\* the cycle found, and the next cycle takes the plugins in the reverse order.
Replay ==
    /\ pc \in {"done", "raised"}
    /\ first = NoFirst
    /\ first' = [known |-> TRUE, ok |-> CommandsSucceed, error |-> error,
                 restart_needed |-> restart_needed, installed |-> installed,
                 cfg |-> cfg, keystore |-> keystore]
    /\ installed' = installed0 /\ cfg' = cfg0 /\ keystore' = keystore0
    /\ order' = Reverse(order)
    /\ CycleReset
    /\ UNCHANGED <<env_vars, reported, call_vars, interrupted, requested, malformed,
                   tls_vars>>

InitOrder ==
    /\ catalog \in Catalogs
    /\ dependencies \in DependencyChoices
    /\ version \in {V_2_9_0, V_2_10_0}
    /\ plugin_version = [p \in Plugins |-> IF p = KNN THEN V_2_9_0_1 ELSE V_2_9_0]
    /\ charm_config \in [Options -> BOOLEAN]
    /\ relations \in {EmptyMap} \cup {S3Relation :> n : n \in 0..MaxUnits}
    /\ started = TRUE
    /\ health \in HealthColors
    /\ installed \in SUBSET Plugins
    /\ cfg \in {EmptyMap, PluginConfig(KNN).config_entries_to_add}
    /\ keystore = EmptyMap
    /\ CycleIdle
    /\ SideIdle
    /\ ProbeIdle
    /\ TlsIdle

NextOrder ==
    \/ RunGate
    \/ install_if_needed
    \/ configure_if_needed
    \/ apply_secret_del
    \/ apply_secret_add
    \/ apply_config_del
    \/ apply_config_add
    \/ apply_return
    \/ disable_if_needed
    \/ Replay

SpecOrder == InitOrder /\ [][NextOrder]_vars

\* ------------------------------------------------------------ TLS secrets
\* opensearch_tls.py and helper_databag.py: the handlers of the TLS events of one
\* unit and the peers data they keep the secrets in.
APP == "app"
UNIT == "unit"
APP_ADMIN == "app-admin"
UNIT_TRANSPORT == "unit-transport"
UNIT_HTTP == "unit-http"
CertTypes == {APP_ADMIN, UNIT_TRANSPORT, UNIT_HTTP}

\* Private keys, generated or given to the action, and the certificates a
\* provider may deliver.
Keys == {"k1", "k2"}
CertIds == {"c1", "c2"}

\* A member of the enum CertType, a key that is not the string cert_type.value.
CertType(v) ==
    CASE v = APP_ADMIN -> "CertType.APP_ADMIN"
      [] v = UNIT_TRANSPORT -> "CertType.UNIT_TRANSPORT"
      [] OTHER -> "CertType.UNIT_HTTP"

\* CertType.__str__ (lines 54-55): str() of a member is its value.
Str(k) ==
    CASE k = "CertType.APP_ADMIN" -> APP_ADMIN
      [] k = "CertType.UNIT_TRANSPORT" -> UNIT_TRANSPORT
      [] k = "CertType.UNIT_HTTP" -> UNIT_HTTP
      [] OTHER -> k

\* The key an entry is kept under: the key as given when the peers data are a
\* dict, str(key) when they are a mapping that keeps its keys as strings.
BagKey(k) == IF str_keys THEN Str(k) ELSE k

\* The scope of a certificate type (line 92).
ScopeOf(cert_type) == IF cert_type = APP_ADMIN THEN APP ELSE UNIT

\* _get_subject, lines 237-241.
get_subject(cert_type) == IF cert_type = APP_ADMIN THEN "admin" ELSE "host"

\* generate_csr: the request is made of the key and the subject and, as PEM text,
\* ends with a newline.
generate_csr(private_key, subject) ==
    [key |-> private_key, subject |-> subject, nl |-> TRUE]

\* str.rstrip() of a text that may end with a newline.
rstrip(text) == [text EXCEPT !.nl = FALSE]

\* The PEM texts an event may carry.
CsrTexts == [key : Keys, subject : {"admin", "host"}, nl : BOOLEAN]
CertTexts == [id : CertIds, nl : BOOLEAN]

\* What a handler has done so far: the peers data, the requests sent, whether
\* it wrote to the application's data, and the exception that ended it.
HandlerStart ==
    [app |-> app_peers_data, unit |-> unit_peers_data, sent |-> csr_sent,
     app_write |-> FALSE, raised |-> "none"]

\* SecretStore.get, lines 68-77: the data of the scope.
Data(st, scope) == IF scope = APP THEN st.app ELSE st.unit

\* data.get(key, None) is not None
Has(st, scope, k) == BagKey(k) \in DOMAIN Data(st, scope)

\* SecretStore.get_object, lines 79-85, of an entry that is there; json.loads of
\* json.dumps gives back the dict of strings that was put.
get_object(st, scope, k) == Data(st, scope)[BagKey(k)]

\* The data of the scope replaced (SecretStore.put, lines 40-49).
WithData(st, scope, data) ==
    IF scope = APP THEN [st EXCEPT !.app = data, !.app_write = TRUE]
    ELSE [st EXCEPT !.unit = data]

\* dict.update
Update(stored, value) ==
    [f \in (DOMAIN stored) \cup (DOMAIN value) |->
        IF f \in DOMAIN value THEN value[f] ELSE stored[f]]

\* SecretStore.put_object, lines 51-66.
put_object(st, scope, k, value, merge) ==
    LET merged == IF merge /\ Has(st, scope, k)
                  THEN Update(get_object(st, scope, k), value)
                  ELSE value
    IN WithData(st, scope, (BagKey(k) :> merged) @@ Data(st, scope))

\* SecretStore.delete, lines 87-89 and 92-96: del of a key that is not there
\* raises KeyError.
delete(st, scope, k) ==
    IF st.raised # "none" THEN st
    ELSE IF ~Has(st, scope, k) THEN [st EXCEPT !.raised = "KeyError"]
    ELSE LET data == Data(st, scope)
         IN WithData(st, scope, [x \in (DOMAIN data) \ {BagKey(k)} |-> data[x]])

\* _request_certificate, lines 188-219, with the key generated or parsed.
request_certificate(st, scope, cert_type, private_key, related) ==
    LET subject == get_subject(cert_type)
        csr == generate_csr(private_key, subject)
        stored == put_object(st, scope, cert_type,
                             ("key" :> private_key) @@ ("key-password" :> None)
                                @@ ("csr" :> csr) @@ ("subject" :> subject),
                             TRUE)
    IN IF related THEN [stored EXCEPT !.sent = @ \cup {csr}] ELSE stored

\* is_secret_found, lines 263-266; the data of an event is never empty.
is_secret_found(st, scope, k, event_data, secret_name) ==
    /\ Has(st, scope, k)
    /\ LET secrets == get_object(st, scope, k)
       IN /\ secret_name \in DOMAIN secrets
          /\ rstrip(secrets[secret_name]) = rstrip(event_data)

\* _find_secret, lines 254-280: the lookups use the members of CertType as keys.
find_secret(st, event_data, secret_name) ==
    IF is_secret_found(st, APP, CertType(APP_ADMIN), event_data, secret_name)
    THEN [found |-> TRUE, scope |-> APP, cert_type |-> APP_ADMIN]
    ELSE IF is_secret_found(st, UNIT, CertType(UNIT_TRANSPORT), event_data, secret_name)
    THEN [found |-> TRUE, scope |-> UNIT, cert_type |-> UNIT_TRANSPORT]
    ELSE IF is_secret_found(st, UNIT, CertType(UNIT_HTTP), event_data, secret_name)
    THEN [found |-> TRUE, scope |-> UNIT, cert_type |-> UNIT_HTTP]
    ELSE [found |-> FALSE, scope |-> "none", cert_type |-> "none"]

\* The handler is over: what it did is in the peers data, and the event is kept
\* with the data the handler found.
Handled(handler, st, cert_type, outcome, event_data) ==
    /\ app_peers_data' = st.app
    /\ unit_peers_data' = st.unit
    /\ csr_sent' = st.sent
    /\ tls_event' = [handler |-> handler, leader |-> is_leader,
                     cert_type |-> cert_type, outcome |-> outcome,
                     raised |-> st.raised, app_write |-> st.app_write,
                     data |-> event_data,
                     app0 |-> app_peers_data, unit0 |-> unit_peers_data]
    /\ UNCHANGED <<env_vars, store_vars, cycle_vars, call_vars, interrupted, probe_vars,
                   is_leader, str_keys>>

\* _on_set_tls_private_key, lines 89-104; a key that cannot be parsed raises
\* ValueError before anything is stored.
on_set_tls_private_key ==
    \E cert_type \in CertTypes, param \in {None, "bad"} \cup Keys, generated \in Keys :
        LET scope == ScopeOf(cert_type)
            st == HandlerStart
        IN /\ param # None => generated = "k1"
           /\ UNCHANGED tls_relation
           /\ IF scope = APP /\ ~is_leader
              THEN Handled("set_tls_private_key", st, cert_type, "not leader", param)
              ELSE IF param = "bad"
              THEN Handled("set_tls_private_key", st, cert_type, "failed", param)
              ELSE Handled("set_tls_private_key",
                           request_certificate(st, scope, cert_type,
                                               IF param = None THEN generated ELSE param,
                                               tls_relation),
                           cert_type, "requested", param)

\* _on_tls_relation_joined, lines 106-112.
on_tls_relation_joined ==
    \E admin_key, transport_key, http_key \in Keys :
        LET st == HandlerStart
            admin == IF is_leader
                     THEN request_certificate(st, APP, APP_ADMIN, admin_key, TRUE)
                     ELSE st
            transport == request_certificate(admin, UNIT, UNIT_TRANSPORT,
                                             transport_key, TRUE)
            http == request_certificate(transport, UNIT, UNIT_HTTP, http_key, TRUE)
        IN /\ ~is_leader => admin_key = "k1"
           /\ tls_relation' = TRUE
           /\ Handled("tls_relation_joined", http, "none", "requested", None)

\* _on_tls_relation_broken, lines 114-122.
on_tls_relation_broken ==
    LET st == HandlerStart
        admin == IF is_leader THEN delete(st, APP, CertType(APP_ADMIN)) ELSE st
        transport == delete(admin, UNIT, CertType(UNIT_TRANSPORT))
        http == delete(transport, UNIT, CertType(UNIT_HTTP))
    IN /\ tls_relation' = FALSE
       /\ Handled("tls_relation_broken", http, "none",
                  IF http.raised = "none" THEN "removed" ELSE "raised", None)

\* _on_certificate_available, lines 124-151.
on_certificate_available ==
    \E csr \in CsrTexts, cert \in CertTexts, conf_set \in BOOLEAN :
        LET st == HandlerStart
            found == find_secret(st, csr, "csr")
            event == [certificate_signing_request |-> csr, certificate |-> cert,
                      chain |-> "chain", ca |-> "ca"]
        IN /\ UNCHANGED tls_relation
           /\ IF ~found.found
              THEN /\ conf_set
                   /\ Handled("certificate_available", st, "none", "unknown", event)
              ELSE IF found.scope = APP /\ ~is_leader
              THEN /\ conf_set
                   /\ Handled("certificate_available", st, found.cert_type,
                              "not leader", event)
              ELSE IF "cert" \notin
                        DOMAIN get_object(st, found.scope, CertType(found.cert_type))
              THEN /\ conf_set
                   /\ Handled("certificate_available", [st EXCEPT !.raised = "KeyError"],
                              found.cert_type, "raised", event)
              ELSE Handled("certificate_available",
                           put_object(st, found.scope, found.cert_type,
                                      ("chain" :> event.chain)
                                         @@ ("cert" :> event.certificate)
                                         @@ ("ca" :> event.ca),
                                      TRUE),
                           found.cert_type,
                           IF conf_set THEN "set" ELSE "deferred", event)

\* _on_certificate_expiring, lines 153-186.
on_certificate_expiring ==
    \E cert \in CertTexts :
        LET st == HandlerStart
            found == find_secret(st, cert, "cert")
            event == [certificate |-> cert]
        IN /\ UNCHANGED tls_relation
           /\ IF ~found.found
              THEN Handled("certificate_expiring", st, "none", "unknown", event)
              ELSE LET secrets == get_object(st, found.scope, CertType(found.cert_type))
                       subject == get_subject(found.cert_type)
                   IN IF ~({"key", "csr"} \subseteq DOMAIN secrets)
                      THEN Handled("certificate_expiring",
                                   [st EXCEPT !.raised = "KeyError"],
                                   found.cert_type, "raised", event)
                      ELSE LET new_csr == generate_csr(secrets["key"], subject)
                               stored == put_object(st, found.scope,
                                                    CertType(found.cert_type),
                                                    ("csr" :> new_csr)
                                                       @@ ("subject" :> subject),
                                                    TRUE)
                           IN Handled("certificate_expiring",
                                      [stored EXCEPT !.sent = @ \cup {new_csr}],
                                      found.cert_type, "renewal requested", event)

\* The secret _request_certificate stores, and the secret once its certificate
\* was delivered.
RequestedSecret(cert_type, private_key) ==
    ("key" :> private_key) @@ ("key-password" :> None)
        @@ ("csr" :> generate_csr(private_key, get_subject(cert_type)))
        @@ ("subject" :> get_subject(cert_type))

IssuedSecret(cert_type, private_key, id) ==
    ("chain" :> "chain") @@ ("cert" :> [id |-> id, nl |-> TRUE]) @@ ("ca" :> "ca")
        @@ RequestedSecret(cert_type, private_key)

\* The unit starts without secrets of its own. The application's data are
\* shared by the units and outlive the hooks of this one: they are empty, or
\* hold the admin secret as requested, or the admin secret with a certificate,
\* the secret the renewal of lines 136-137 and 153-186 is written for.
InitTls ==
    /\ catalog = ConfigExposedPlugins
    /\ dependencies = [p \in Plugins |-> {}]
    /\ version = V_2_9_0
    /\ plugin_version = [p \in Plugins |-> IF p = KNN THEN V_2_9_0_1 ELSE V_2_9_0]
    /\ charm_config = [o \in Options |-> FALSE]
    /\ relations = EmptyMap
    /\ started = FALSE
    /\ health = "RED"
    /\ installed = {}
    /\ cfg = EmptyMap
    /\ keystore = EmptyMap
    /\ CycleIdle
    /\ SideIdle
    /\ ProbeIdle
    /\ is_leader \in BOOLEAN
    /\ str_keys \in BOOLEAN
    /\ app_peers_data \in {EmptyMap,
                           APP_ADMIN :> RequestedSecret(APP_ADMIN, "k1"),
                           APP_ADMIN :> IssuedSecret(APP_ADMIN, "k1", "c1")}
    /\ unit_peers_data = EmptyMap
    /\ tls_relation = FALSE
    /\ csr_sent = {}
    /\ tls_event = NoTlsEvent

NextTls ==
    \/ on_set_tls_private_key
    \/ on_tls_relation_joined
    \/ on_tls_relation_broken
    \/ on_certificate_available
    \/ on_certificate_expiring

SpecTls == InitTls /\ [][NextTls]_vars

\* ------------------------------------------------- one cycle after another
\* run returned; what it ended with is kept for the cycle that follows.
ReturnAndRemember ==
    /\ pc = "done"
    /\ first' = [known |-> TRUE, ok |-> CommandsSucceed, error |-> error,
                 restart_needed |-> restart_needed, installed |-> installed,
                 cfg |-> cfg, keystore |-> keystore]
    /\ EndOfCycle
    /\ UNCHANGED <<interrupted, requested, malformed, order, tls_vars>>

\* run raised; the cycle that follows does not follow a completed one.
RaiseAndForget ==
    /\ pc = "raised"
    /\ first' = NoFirst
    /\ EndOfCycle
    /\ UNCHANGED <<interrupted, requested, malformed, order, tls_vars>>

\* The inputs are settled and the stores hold whatever earlier cycles left.
InitTwice ==
    /\ catalog \in Catalogs
    /\ dependencies = [p \in Plugins |-> {}]
    /\ version \in {V_2_9_0, V_2_10_0}
    /\ plugin_version = [p \in Plugins |-> IF p = KNN THEN V_2_9_0_1 ELSE V_2_9_0]
    /\ charm_config \in [Options -> BOOLEAN]
    /\ relations \in {EmptyMap} \cup {S3Relation :> n : n \in 0..MaxUnits}
    /\ started = TRUE
    /\ health = "GREEN"
    /\ installed \in SUBSET Plugins
    /\ cfg \in ConfigStores
    /\ keystore \in {EmptyMap, PluginConfig(S3).secret_entries_to_add}
    /\ CycleIdle
    /\ SideIdle
    /\ ProbeIdle
    /\ TlsIdle

NextTwice ==
    \/ RunGate
    \/ install_if_needed
    \/ configure_if_needed
    \/ apply_secret_del
    \/ apply_secret_add
    \/ apply_config_del
    \/ apply_config_add
    \/ apply_return
    \/ disable_if_needed
    \/ ReturnAndRemember
    \/ RaiseAndForget

SpecTwice == InitTwice /\ [][NextTwice]_vars

\* ------------------------------------------------------------------ claims
\* State at the start of the running cycle.
Status0(p) == StatusOf(p, installed0, cfg0)

InCycle == pc # "idle"

InstallInvoked(p) == install_calls[p] > 0

\* C1: in a cycle in which the gate raised cluster-not-ready, no install command
\* is invoked, no delta is applied, and the installed list, the configuration
\* store and the keystore are what they were when the cycle started.
C1_GateFirst ==
    error = "ClusterNotReady" =>
        /\ installed = installed0 /\ cfg = cfg0 /\ keystore = keystore0
        /\ \A p \in Plugins : install_calls[p] = 0 /\ applied[p] = {}

\* A gate failure in a state where a wanted plugin is missing and the
\* configuration store is not empty.
C1_Witness ==
    /\ pc = "raised" /\ error = "ClusterNotReady"
    /\ cfg # EmptyMap
    /\ \E p \in Plugins : user_requested_to_enable(p) /\ status(p) = "MISSING"

\* C2: whenever the service is not running, or the health is neither GREEN nor
\* YELLOW, the cycle raises cluster-not-ready.
C2_GateFailsWhenNotOperable ==
    (InCycle /\ (~started \/ health0 \notin {"GREEN", "YELLOW"}))
        => error = "ClusterNotReady"

\* C3: a cycle started while the service runs and the health is GREEN or YELLOW
\* does not raise cluster-not-ready and goes on to the first catalog plugin.
C3_GatePassesWhenOperable ==
    [][(pc = "idle" /\ pc' # "idle" /\ started /\ health \in {"GREEN", "YELLOW"})
        => (error' = "none" /\ pc' = "install" /\ idx' = 1)]_vars

\* A cycle that passed the gate with the service running and an operable health.
C3_Witness ==
    /\ pc = "install" /\ idx = 1
    /\ started /\ health0 \in {"GREEN", "YELLOW"}

C5_DependencyGating ==
    [][(pc = "install" /\ dependencies[CurrentPlugin] \ installed # {})
        => /\ install_calls' = install_calls
           /\ (status(CurrentPlugin) = "MISSING"
               /\ user_requested_to_enable(CurrentPlugin)
               /\ error' # "OpenSearchPluginError")
              => error' = "OpenSearchPluginMissingDepsError"]_vars

\* The install phase raised missing-dependencies for a wanted, missing plugin.
C5_Witness ==
    /\ pc = "raised" /\ error = "OpenSearchPluginMissingDepsError"
    /\ status(CurrentPlugin) = "MISSING"
    /\ user_requested_to_enable(CurrentPlugin)
    /\ dependencies[CurrentPlugin] \ installed # {}

\* The two gates of the desired state, read off the catalog entry.
GateOptionTruthy(p) ==
    /\ catalog[p].config \in DOMAIN charm_config
    /\ charm_config[catalog[p].config] = TRUE

GateRelationConnected(p) ==
    /\ catalog[p].relation \in DOMAIN relations
    /\ relations[catalog[p].relation] >= 1

Ungated(p) == catalog[p].config = None /\ catalog[p].relation = None

\* C6: the resolver returns true exactly when the gating option is truthy or the
\* gating relation exists and has at least one remote unit.
C6_ResolverIff ==
    \A p \in Plugins :
        user_requested_to_enable(p) <=> (GateOptionTruthy(p) \/ GateRelationConnected(p))

\* The configure phase of a plugin whose gating relation exists without units and
\* whose option is not set: the resolver says not wanted.
C6_Witness ==
    /\ pc = "configure"
    /\ catalog[CurrentPlugin].relation \in DOMAIN relations
    /\ relations[catalog[CurrentPlugin].relation] = 0
    /\ ~GateOptionTruthy(CurrentPlugin)
    /\ ~user_requested_to_enable(CurrentPlugin)

ExactMatch(p) ==
    LET conf == PluginConfig(p).config_entries_to_add
    IN \A k \in DOMAIN conf : k \in DOMAIN cfg /\ cfg[k] = conf[k]

DiffersOnSharedPrefix(v, pv) ==
    \E i \in 1..Min(Len(Split(v)), Len(Split(pv))) : Split(v)[i] # Split(pv)[i]

DecisionProcedure(p) ==
    IF p \notin installed THEN "MISSING"
    ELSE IF ~ExactMatch(p) THEN "INSTALLED"
    ELSE IF DiffersOnSharedPrefix(version, plugin_version[p]) THEN "WAITING_FOR_UPGRADE"
    ELSE "ENABLED"

\* C8: the status returned for a plugin is the one the ordered decision procedure
\* gives (MISSING, else INSTALLED, else WAITING_FOR_UPGRADE, else ENABLED), with
\* versions compared on their first min(n, m) components.
C8_StatusDecision ==
    \A p \in Plugins :
        reported[p] # "none" =>
            /\ reported[p] = DecisionProcedure(p)
            /\ reported[p] \in PluginState

\* Scenario E: service 2.9.0, plugin 2.9.0.1, reported ENABLED.
C8_Witness ==
    \E p \in Plugins :
        /\ reported[p] = "ENABLED"
        /\ version = V_2_9_0 /\ plugin_version[p] = V_2_9_0_1

\* C9: when run returns from a cycle in which a plugin was MISSING, wanted and
\* had its dependencies installed at the start, the install command was invoked
\* exactly once for it and, if the command succeeded, run returns true.
C9_ScenarioA ==
    \A p \in Plugins :
        (/\ pc = "done"
         /\ Status0(p) = "MISSING"
         /\ user_requested_to_enable(p)
         /\ dependencies[p] \subseteq installed0)
        => /\ install_calls[p] = 1
           /\ install_result[p] = "ok" => restart_needed

\* run returns true after installing a plugin that was missing and wanted.
C9_Witness ==
    \E p \in Plugins :
        /\ pc = "done"
        /\ Status0(p) = "MISSING"
        /\ user_requested_to_enable(p)
        /\ dependencies[p] \subseteq installed0
        /\ install_calls[p] = 1 /\ install_result[p] = "ok"
        /\ restart_needed

\* C10: when run returns from a cycle in which a plugin was wanted and INSTALLED
\* at the start, its enable delta and only it was applied, the configuration
\* store holds the enable mapping and the keystore the enable secrets, the plugin
\* is no longer INSTALLED, and run returns true.
C10_ScenarioB ==
    \A p \in Plugins :
        (/\ pc = "done"
         /\ Status0(p) = "INSTALLED"
         /\ user_requested_to_enable(p))
        => /\ applied[p] = {"enable"}
           /\ get_plugin(cfg, PluginConfig(p).config_entries_to_add)
                = PluginConfig(p).config_entries_to_add
           /\ get_plugin(keystore, PluginConfig(p).secret_entries_to_add)
                = PluginConfig(p).secret_entries_to_add
           /\ status(p) \in {"ENABLED", "WAITING_FOR_UPGRADE"}
           /\ restart_needed

\* run returns true after configuring a plugin that was installed and wanted.
C10_Witness ==
    \E p \in Plugins :
        /\ pc = "done"
        /\ Status0(p) = "INSTALLED"
        /\ user_requested_to_enable(p)
        /\ applied[p] = {"enable"}
        /\ restart_needed

\* The delta touches the configuration store.
HasConfigEntries(delta) ==
    DOMAIN delta.config_entries_to_add # {} \/ delta.config_entries_to_del # {}

\* The stores hold the result of the delta: its additions are there and what it
\* only deletes is not.
DeltaInPlace(delta) ==
    /\ \A k \in DOMAIN delta.config_entries_to_add :
          k \in DOMAIN cfg /\ cfg[k] = delta.config_entries_to_add[k]
    /\ \A k \in delta.config_entries_to_del \ DOMAIN delta.config_entries_to_add :
          k \notin DOMAIN cfg
    /\ \A k \in DOMAIN delta.secret_entries_to_add :
          k \in DOMAIN keystore /\ keystore[k] = delta.secret_entries_to_add[k]
    /\ \A k \in delta.secret_entries_to_del \ DOMAIN delta.secret_entries_to_add :
          k \notin DOMAIN keystore

\* C11 as stated: when run returns from a cycle in which a plugin was not wanted
\* and ENABLED or WAITING_FOR_UPGRADE, its disable delta was applied and run
\* returns true, whatever the delta.
C11_ScenarioC ==
    \A p \in Plugins :
        (/\ pc = "done"
         /\ ~user_requested_to_enable(p)
         /\ Status0(p) \in {"ENABLED", "WAITING_FOR_UPGRADE"})
        => ("disable" \in applied[p] /\ restart_needed)

\* C11 amended: when run returns from such a cycle, the disable delta and only it
\* was applied to the plugin, the stores hold its result, and run returns true if
\* the delta has configuration entries to add or to delete.
C11_Amended ==
    \A p \in Plugins :
        (/\ pc = "done"
         /\ ~user_requested_to_enable(p)
         /\ Status0(p) \in {"ENABLED", "WAITING_FOR_UPGRADE"})
        => /\ applied[p] = {"disable"}
           /\ DeltaInPlace(PluginDisable(p))
           /\ HasConfigEntries(PluginDisable(p)) => restart_needed

\* run returns true after disabling a plugin that waited for an upgrade.
C11_Witness ==
    \E p \in Plugins :
        /\ pc = "done"
        /\ ~user_requested_to_enable(p)
        /\ Status0(p) = "WAITING_FOR_UPGRADE"
        /\ applied[p] = {"disable"}
        /\ restart_needed

\* Keys of the configuration store the deltas of a plugin touch.
ConfigKeysOf(p) ==
    (DOMAIN PluginConfig(p).config_entries_to_add)
        \cup PluginConfig(p).config_entries_to_del
        \cup (DOMAIN PluginDisable(p).config_entries_to_add)
        \cup PluginDisable(p).config_entries_to_del

\* A delta applied to the plugin in this cycle changed a configuration entry.
ConfigChangedFor(p) ==
    /\ applied[p] # {}
    /\ \E k \in ConfigKeysOf(p) :
          \/ (k \in DOMAIN cfg) # (k \in DOMAIN cfg0)
          \/ (k \in DOMAIN cfg /\ k \in DOMAIN cfg0 /\ cfg[k] # cfg0[k])

\* C12: the value run returns is the OR, over the catalog plugins, of: install
\* succeeded, the enable delta changed a configuration entry, the disable delta
\* changed a configuration entry.
C12_RestartAggregation ==
    pc = "done" =>
        (restart_needed <=>
            \E p \in Plugins : install_result[p] = "ok" \/ ConfigChangedFor(p))

\* run returns true because of the first plugin alone: the second did nothing.
C12_Witness ==
    /\ pc = "done" /\ restart_needed
    /\ "disable" \in applied[PluginOrder[1]]
    /\ install_result[PluginOrder[2]] # "ok"
    /\ ~ConfigChangedFor(PluginOrder[2])

\* _apply_config is between its first statement and its return.
InApplyConfig ==
    pc \in {"secret_del", "secret_add", "config_del", "config_add", "apply_return"}

\* The configuration store holds the configuration entries the delta adds.
HoldsNewConfig(delta) ==
    /\ delta.config_entries_to_add # EmptyMap
    /\ \A k \in DOMAIN delta.config_entries_to_add :
          k \in DOMAIN cfg /\ cfg[k] = delta.config_entries_to_add[k]

\* The keystore holds the secrets the delta adds.
HoldsNewSecrets(delta) ==
    \A k \in DOMAIN delta.secret_entries_to_add :
        k \in DOMAIN keystore /\ keystore[k] = delta.secret_entries_to_add[k]

\* One statement of _apply_config: it is the one that follows in the order secret
\* deletions, secret additions, configuration deletions, configuration additions,
\* and it touches its own store only.
C14_OrderStep ==
    /\ (applying = "none" /\ applying' # "none") => pc' = "secret_del"
    /\ pc = "secret_del" =>
          /\ pc' = "secret_add" /\ cfg' = cfg
          /\ keystore' = Remove(keystore, CurrentDelta.secret_entries_to_del)
    /\ pc = "secret_add" =>
          /\ pc' = "config_del" /\ cfg' = cfg
          /\ keystore' = Put(keystore, CurrentDelta.secret_entries_to_add)
    /\ pc = "config_del" =>
          /\ pc' = "config_add" /\ keystore' = keystore
          /\ cfg' = Remove(cfg, CurrentDelta.config_entries_to_del)
    /\ pc = "config_add" =>
          /\ pc' = "apply_return" /\ keystore' = keystore
          /\ cfg' = Put(cfg, CurrentDelta.config_entries_to_add)
    /\ pc = "apply_return" => (cfg' = cfg /\ keystore' = keystore)

\* C14: _apply_config deletes secrets, adds secrets, deletes configuration entries
\* and adds configuration entries, in that order; while an enable delta is being
\* applied the configuration store never holds the delta's new configuration
\* entries while the secrets the delta adds are absent from the keystore.
C14_ApplyOrder ==
    /\ [](InApplyConfig /\ applying = "enable"
            => (HoldsNewConfig(CurrentDelta) => HoldsNewSecrets(CurrentDelta)))
    /\ [][C14_OrderStep]_vars

\* An enable delta half applied: its secret is in the keystore and its
\* configuration entries are not yet in the configuration store.
C14_Witness ==
    /\ pc = "config_add" /\ applying = "enable"
    /\ CurrentDelta.secret_entries_to_add # EmptyMap
    /\ HoldsNewSecrets(CurrentDelta)
    /\ ~HoldsNewConfig(CurrentDelta)

\* C13 as stated: a call of _apply_config returns true exactly if it changed an
\* entry of the configuration store.
C13_TrueIffConfigChanged ==
    apply_calls > 0 => (apply_result <=> cfg # cfg0)

\* What a store holds after a delta that deletes the keys of del and adds the
\* entries of add was applied to a store that held before.
AsDeltaSays(after, before, add, del) ==
    /\ DOMAIN after = ((DOMAIN before) \ del) \cup (DOMAIN add)
    /\ \A k \in DOMAIN after :
          after[k] = IF k \in DOMAIN add THEN add[k] ELSE before[k]

\* C15: after one call of _apply_config every key the delta adds holds the added
\* value, also if the delta deletes it as well, every other key it deletes is
\* absent, and nothing else changed; a second call with the same delta leaves the
\* configuration store and the keystore as the first call left them.
C15_Idempotent ==
    /\ apply_calls > 0 =>
          /\ AsDeltaSays(cfg, cfg0, call_config.config_entries_to_add,
                         call_config.config_entries_to_del)
          /\ AsDeltaSays(keystore, keystore0, call_config.secret_entries_to_add,
                         call_config.secret_entries_to_del)
    /\ apply_calls > 1 => (cfg = cfg0 /\ keystore = keystore0)

\* A delta that deletes and adds the same key and deletes a key that was absent,
\* applied twice.
C15_Witness ==
    /\ apply_calls = 2
    /\ KnnEnabledKey \in call_config.config_entries_to_del
          \cap DOMAIN call_config.config_entries_to_add
    /\ S3RegionKey \in call_config.config_entries_to_del \ DOMAIN cfg
    /\ S3AccessKey \in call_config.secret_entries_to_del
    /\ cfg # EmptyMap

\* Two stores agree on a set of keys.
AgreeOn(keys, a, b) ==
    \A k \in keys :
        /\ (k \in DOMAIN a) <=> (k \in DOMAIN b)
        /\ k \in DOMAIN a => a[k] = b[k]

\* The stores hold, for the keys of the delta that was cut short, what the whole
\* delta would have left.
Repaired ==
    LET delta == interrupted.delta
    IN /\ AgreeOn((DOMAIN delta.config_entries_to_add) \cup delta.config_entries_to_del,
                  cfg, interrupted.cfg)
       /\ AgreeOn((DOMAIN delta.secret_entries_to_add) \cup delta.secret_entries_to_del,
                  keystore, interrupted.keystore)

\* C16: when the first cycle that completes after a cycle was cut short between
\* the deletions and the additions of a delta returns, with the inputs unchanged,
\* the stores hold what one uninterrupted application of that delta leaves.
C16_PartialApplicationRepaired ==
    (pc = "done" /\ interrupted # NoInterrupt) => Repaired

\* The same for enable deltas only.
C16_EnableRepaired ==
    (pc = "done" /\ interrupted # NoInterrupt
        /\ interrupted.delta = PluginConfig(interrupted.plugin)) => Repaired

\* Every wanted plugin whose dependencies are installed is enabled and no
\* unwanted plugin is.
Converged ==
    \A p \in Plugins :
        /\ (user_requested_to_enable(p) /\ dependencies[p] \subseteq installed)
              => status(p) \in {"ENABLED", "WAITING_FOR_UPGRADE"}
        /\ ~user_requested_to_enable(p) => status(p) \in {"MISSING", "INSTALLED"}

\* C17: if the triggers keep recurring while the gate passes, the inputs do not
\* change and the external commands succeed, then from some cycle on every wanted
\* plugin whose dependencies are installed is ENABLED or WAITING_FOR_UPGRADE and
\* every unwanted plugin is MISSING or INSTALLED.
C17_Converges ==
    []CommandsSucceed => <>[]Converged

\* C18: when the install command of a plugin fails with "already exists", the
\* cycle raises nothing, _install_if_needed returns false, and the cycle goes on
\* with the configure phase of the same plugin.
C18_AlreadyExistsBenign ==
    [][\A p \in Plugins :
          (install_result[p] # "already exists" /\ install_result'[p] = "already exists")
          => /\ error' = "none"
             /\ r_install' = FALSE /\ restart_needed' = restart_needed
             /\ pc' = "configure" /\ idx' = idx]_vars

\* run returned false from a cycle in which the install of the first plugin ended
\* in "already exists" and the second plugin was installed after it.
C18_Witness ==
    /\ pc = "done" /\ error = "none"
    /\ install_result[PluginOrder[1]] = "already exists"
    /\ PluginOrder[1] \notin installed
    /\ install_result[PluginOrder[2]] = "ok"

\* C19: when the install command of a plugin fails with another message, run
\* raises the install error, which is none of the cluster-not-ready,
\* missing-dependencies, missing-configuration errors, and no delta was applied to
\* the plugin in the cycle.
C19_InstallErrorSurfaces ==
    \A p \in Plugins :
        install_result[p] = "error"
        => /\ pc = "raised"
           /\ error = "OpenSearchPluginInstallError"
           /\ error \notin {"ClusterNotReady", "OpenSearchPluginMissingDepsError",
                            "OpenSearchPluginMissingConfigError"}
           /\ applied[p] = {}
           /\ StatusOf(p, installed, cfg) = Status0(p)

\* The install of the second plugin failed after the first plugin was enabled.
C19_Witness ==
    /\ pc = "raised"
    /\ install_result[PluginOrder[2]] = "error"
    /\ "enable" \in applied[PluginOrder[1]]

\* What was done for a plugin in this cycle is in the stores.
EffectsInPlace(q) ==
    /\ install_result[q] = "ok" => q \in installed
    /\ "enable" \in applied[q] => DeltaInPlace(PluginConfig(q))
    /\ "disable" \in applied[q] => DeltaInPlace(PluginDisable(q))

\* C20: when a plugin raises missing-dependencies, run ends with that error, no
\* install command was invoked and no delta applied for the plugins after it in
\* the catalog order, and what was done for the plugins before it stays in the
\* stores, also once run has raised.
C20_MissingDepsAborts ==
    /\ [](error = "OpenSearchPluginMissingDepsError"
            => /\ pc = "raised"
               /\ \A i \in (idx + 1)..Len(PluginOrder) :
                     /\ install_calls[PluginOrder[i]] = 0
                     /\ applied[PluginOrder[i]] = {}
               /\ \A i \in 1..(idx - 1) : EffectsInPlace(PluginOrder[i]))
    /\ [][pc = "raised" => store_vars' = store_vars]_vars

\* The first plugin raised missing-dependencies while the second was wanted and
\* missing.
C20_Witness ==
    /\ pc = "raised" /\ error = "OpenSearchPluginMissingDepsError"
    /\ idx = 1
    /\ user_requested_to_enable(PluginOrder[2])
    /\ status(PluginOrder[2]) = "MISSING"

\* The second plugin raised missing-dependencies after the first was installed
\* and enabled.
C20_EarlierKept ==
    /\ pc = "raised" /\ error = "OpenSearchPluginMissingDepsError"
    /\ idx = 2
    /\ install_result[PluginOrder[1]] = "ok"
    /\ "enable" \in applied[PluginOrder[1]]

\* The gating option of a catalog entry is not in the charm configuration.
OptionAbsent(p) ==
    catalog[p].config # None /\ catalog[p].config \notin DOMAIN charm_config

\* No relation of the gating name of a catalog entry exists.
RelationAbsent(p) ==
    catalog[p].relation # None /\ catalog[p].relation \notin DOMAIN relations

C22_StatusOfMalformed ==
    \A p \in Plugins :
        (reported[p] # "none" /\ p \in malformed)
        => reported[p] = IF p \in installed THEN "INSTALLED" ELSE "MISSING"

\* INSTALLED was returned for a malformed plugin although the configuration store
\* holds the entries that enable it and the versions differ.
C22_Witness ==
    \E p \in Plugins :
        /\ p \in malformed /\ p \in installed
        /\ IsEnabledNoExcept(p, cfg)
        /\ needs_upgrade(p)
        /\ reported[p] = "INSTALLED"

\* C23: one gate check reads the health probe at most once.
C23_SingleHealthRead ==
    health_reads <= 1

\* C24: a cycle that takes the plugins in the reverse order, from the same stores
\* and with the same inputs, ends as the first did: the same installed list,
\* configuration store, keystore, error and returned value (no command failing in
\* either).
C24_OrderIndependent ==
    (pc \in {"done", "raised"} /\ first.known /\ first.ok /\ CommandsSucceed)
    => /\ installed = first.installed
       /\ cfg = first.cfg
       /\ keystore = first.keystore
       /\ error = first.error
       /\ pc = "done" => restart_needed = first.restart_needed

\* Keys the delta both adds and deletes.
ConfigOverlap(delta) ==
    (DOMAIN delta.config_entries_to_add) \cap delta.config_entries_to_del

SecretOverlap(delta) ==
    (DOMAIN delta.secret_entries_to_add) \cap delta.secret_entries_to_del

StoresAsLeft ==
    /\ installed = first.installed
    /\ cfg = first.cfg
    /\ keystore = first.keystore

SecretKeysOf(p) ==
    (DOMAIN PluginConfig(p).secret_entries_to_add)
        \cup PluginConfig(p).secret_entries_to_del
        \cup (DOMAIN PluginDisable(p).secret_entries_to_add)
        \cup PluginDisable(p).secret_entries_to_del

\* What the cycle found for p asks for nothing: wanted and enabled (or waiting
\* for an upgrade), or not wanted and not enabled.
NoOpAtStart(p) ==
    IF user_requested_to_enable(p)
    THEN Status0(p) \in {"ENABLED", "WAITING_FOR_UPGRADE"}
    ELSE Status0(p) \in {"MISSING", "INSTALLED"}

DataBefore(scope) == IF scope = APP THEN tls_event.app0 ELSE tls_event.unit0

\* Before the event handled last, a certificate was requested for the type with
\* the CSR the event carries: _request_certificate had stored key and csr.
RequestedBefore(cert_type) ==
    /\ cert_type \in DOMAIN DataBefore(ScopeOf(cert_type))
    /\ LET secrets == DataBefore(ScopeOf(cert_type))[cert_type]
       IN /\ {"key", "csr"} \subseteq DOMAIN secrets
          /\ rstrip(secrets["csr"]) = rstrip(tls_event.data.certificate_signing_request)

\* The secret of the type holds what the event delivered, with the key and the
\* csr it held before.
Delivered(cert_type) ==
    LET data == IF ScopeOf(cert_type) = APP THEN app_peers_data ELSE unit_peers_data
    IN /\ cert_type \in DOMAIN data
       /\ {"cert", "chain", "ca", "key", "csr"} \subseteq DOMAIN data[cert_type]
       /\ data[cert_type]["cert"] = tls_event.data.certificate
       /\ data[cert_type]["chain"] = tls_event.data.chain
       /\ data[cert_type]["ca"] = tls_event.data.ca
       /\ data[cert_type]["key"] = DataBefore(ScopeOf(cert_type))[cert_type]["key"]
       /\ data[cert_type]["csr"] = DataBefore(ScopeOf(cert_type))[cert_type]["csr"]

\* C30: when certificate-available carries the CSR of a certificate requested
\* for a type, on a unit that may handle the scope of the type, the handler does
\* not raise and the secret of the type holds the delivered cert, chain and ca
\* with the key and csr stored before, on first issuance too.
C30_DeliveryCompletes ==
    \A cert_type \in CertTypes :
        (/\ tls_event.handler = "certificate_available"
         /\ RequestedBefore(cert_type)
         /\ ScopeOf(cert_type) = APP => tls_event.leader)
        => /\ tls_event.raised = "none"
           /\ Delivered(cert_type)

\* The same for the admin secret that already holds a certificate, where the
\* peers data keep their keys as strings.
TlsRenewalDelivered ==
    (/\ tls_event.handler = "certificate_available"
     /\ str_keys
     /\ RequestedBefore(APP_ADMIN)
     /\ "cert" \in DOMAIN tls_event.app0[APP_ADMIN]
     /\ tls_event.leader)
    => /\ tls_event.raised = "none"
       /\ Delivered(APP_ADMIN)

====
